---- MODULE Spec2Model ----
(***************************************************************************)
(* Headlamp plugin manager (app/electron/plugin-management.ts):            *)
(* install / installFromPluginPkg / update / uninstall / list /            *)
(* fetchPluginInfo as a state machine over the plugins root, the temp      *)
(* directories, the registry and archive requests, the progress observer   *)
(* and the cancellation signal.                                            *)
(*                                                                         *)
(* Strings the code inspects character by character (plugin names,         *)
(* checksums) are sequences of one-character strings.  URLs are an origin  *)
(* followed by the "/"-separated segments of the path.                     *)
(***************************************************************************)
EXTENDS Integers, Sequences, FiniteSets, TLC

\* ---------------------------------------------------------------- bounds
\* Longest plugin name the registry (or the caller) supplies.
MaxNameLen == 2
\* Longest archive body, in chunks delivered by the response stream.
MaxBodyLen == 2

\* ------------------------------------------------------- string helpers
\* String.prototype.startsWith
StartsWith(s, p) == Len(s) >= Len(p) /\ SubSeq(s, 1, Len(p)) = p

\* Positions at which p occurs in s.
Occurrences(s, p) ==
  {i \in 1..(Len(s) - Len(p) + 1) : SubSeq(s, i, i + Len(p) - 1) = p}

\* String.prototype.replace(p, "") with a string pattern: the first
\* occurrence only, wherever it is.
RemoveFirst(s, p) ==
  IF Occurrences(s, p) = {} THEN s
  ELSE LET i == CHOOSE k \in Occurrences(s, p) :
                  \A j \in Occurrences(s, p) : k <= j
       IN SubSeq(s, 1, i - 1) \o SubSeq(s, i + Len(p), Len(s))

\* ---------------------------------------------------------- plugin names
NameChars == {"a", ".", "/", "\\"}
Names == UNION {[1..n -> NameChars] : n \in 0..MaxNameLen}

\* validatePluginName with the ".." alternative of the pattern dropped.
validatePluginNameNoDots(pluginName) ==
  ~ \E i \in 1..Len(pluginName) : pluginName[i] \in {"/", "\\"}

\* /[\/\\]|(\.\.)/ is tested against the name; valid iff it does not match.
validatePluginName(pluginName) ==
  ~ ( (\E i \in 1..Len(pluginName) : pluginName[i] \in {"/", "\\"})
      \/ (\E i \in 1..(Len(pluginName) - 1) :
             pluginName[i] = "." /\ pluginName[i + 1] = ".") )

\* ------------------------------------------------------------------ paths
\* A path is [abs, segs]: the empty string '' is the relative path with no
\* segment.  Segments are names.
EmptyPath == [abs |-> FALSE, segs |-> <<>>]
TmpRoot == [abs |-> TRUE, segs |-> << <<"t", "m", "p">> >>]
DestRoot == [abs |-> TRUE, segs |-> << <<"d", "s", "t">> >>]
Cwd == [abs |-> TRUE, segs |-> << <<"c", "w", "d">> >>]
FsRoot == [abs |-> TRUE, segs |-> <<>>]

\* The "/"-separated pieces of a string (posix path separator).
RECURSIVE SplitSlash(_)
SplitSlash(s) ==
  IF \A i \in 1..Len(s) : s[i] # "/" THEN <<s>>
  ELSE LET i == CHOOSE k \in 1..Len(s) :
                  s[k] = "/" /\ \A j \in 1..(k - 1) : s[j] # "/"
       IN <<SubSeq(s, 1, i - 1)>> \o SplitSlash(SubSeq(s, i + 1, Len(s)))

\* path.normalize on segments: "" and "." vanish, ".." removes the segment
\* before it.
RECURSIVE NormSegs(_, _)
NormSegs(done, rest) ==
  IF rest = <<>> THEN done
  ELSE LET h == Head(rest) IN
       IF h = <<>> \/ h = <<".">> THEN NormSegs(done, Tail(rest))
       ELSE IF h = <<".", ".">>
            THEN NormSegs(IF done = <<>> THEN done
                          ELSE SubSeq(done, 1, Len(done) - 1), Tail(rest))
            ELSE NormSegs(Append(done, h), Tail(rest))

\* path.join(dir, name)
PathJoin(dir, name) ==
  [abs |-> dir.abs, segs |-> NormSegs(dir.segs, SplitSlash(name))]

\* Every plugin promoted to the one folder "a".
BasenameFixed(name) == <<"a">>

\* path.basename(name): the last "/"-separated piece.
Basename(name) == LET p == SplitSlash(name) IN p[Len(p)]

\* os.tmpdir()/headlamp-plugin-temp-XXXXXX of operation o (fs.mkdtempSync).
OpTag(o) == IF o = 1 THEN "1" ELSE "2"
TempDirOf(o) == [abs |-> TRUE, segs |-> Append(TmpRoot.segs, <<"h", OpTag(o)>>)]

IsProperSubdir(p, dir) ==
  /\ p.abs = dir.abs
  /\ Len(p.segs) > Len(dir.segs)
  /\ SubSeq(p.segs, 1, Len(dir.segs)) = dir.segs

IsImmediateChild(p, dir) ==
  IsProperSubdir(p, dir) /\ Len(p.segs) = Len(dir.segs) + 1

\* ------------------------------------------------------------ archive URLs
\* [origin, segs] stands for origin + "/" + segs joined by "/".
Url(origin, segs) == [tag |-> "url", origin |-> origin, segs |-> segs]
UndefUrl == [tag |-> "undef", origin |-> "", segs |-> <<>>]
\* The empty string.
EmptyUrl == [tag |-> "url", origin |-> "", segs |-> <<>>]

GoodUrl == Url("https://github.com", <<"o", "r", "releases", "x.tgz">>)

ArchiveUrls ==
  { GoodUrl,
    Url("https://github.com", <<"o", "r", "raw", "x.tgz">>),
    Url("https://github.com", <<"o", "r", "releases">>),
    Url("https://github.com", <<"", "r", "archive", "x.tgz">>),
    Url("https://github.com", <<"yolossn", "headlamp-plugins", "raw", "x.tgz">>),
    Url("https://github.com", <<"yolossn", "other", "raw", "x.tgz">>),
    Url("http://github.com", <<"o", "r", "releases", "x.tgz">>),
    Url("https://github.com.evil.example", <<"o", "r", "releases", "x.tgz">>),
    Url("https://evil.example",
        <<"https:", "", "github.com", "o", "r", "releases", "x.tgz">>),
    Url("https://bitbucket.org", <<"o", "r", "get", "x.tgz">>),
    Url("https://bitbucket.org", <<"o", "r", "src", "x.tgz">>),
    Url("https://gitlab.com", <<"o", "r", "-", "archive", "x.tgz">>),
    Url("https://gitlab.com", <<"o", "r", "-", "raw", "x.tgz">>),
    EmptyUrl }

\* ^https://<host>/[^/]+/[^/]+/(k1|k2)/.*$ where a keyword is one or two
\* segments long.
HostPattern(u, host, keywords) ==
  /\ u.origin = host
  /\ Len(u.segs) >= 2
  /\ u.segs[1] # "" /\ u.segs[2] # ""
  /\ \E k \in keywords :
       /\ Len(u.segs) >= 2 + Len(k) + 1
       /\ SubSeq(u.segs, 3, 2 + Len(k)) = k

\* The same pattern without the ^ anchor: it may match from any "https:"
\* inside the URL.
HostPatternUnanchored(u, host, keywords) ==
  \/ HostPattern(u, host, keywords)
  \/ \E i \in 1..Len(u.segs) :
       /\ Len(u.segs) >= i + 2
       /\ u.segs[i] = "https:" /\ u.segs[i + 1] = ""
       /\ HostPattern(Url("https://" \o u.segs[i + 2],
                          SubSeq(u.segs, i + 3, Len(u.segs))), host, keywords)

StartsWithPinned(u) ==
  /\ u.origin = "https://github.com"
  /\ Len(u.segs) >= 3
  /\ u.segs[1] = "yolossn" /\ u.segs[2] = "headlamp-plugins"

validateArchiveURLUnanchored(archiveURL) ==
  \/ HostPatternUnanchored(archiveURL, "https://github.com",
                           {<<"releases">>, <<"archive">>})
  \/ HostPatternUnanchored(archiveURL, "https://bitbucket.org",
                           {<<"downloads">>, <<"get">>})
  \/ HostPatternUnanchored(archiveURL, "https://gitlab.com",
                           {<<"-", "archive">>, <<"releases">>})
  \/ StartsWithPinned(archiveURL)

\* githubRegex || bitbucketRegex || gitlabRegex || startsWith(pinned)
validateArchiveURL(archiveURL) ==
  \/ HostPattern(archiveURL, "https://github.com",
                 {<<"releases">>, <<"archive">>})
  \/ HostPattern(archiveURL, "https://bitbucket.org",
                 {<<"downloads">>, <<"get">>})
  \/ HostPattern(archiveURL, "https://gitlab.com",
                 {<<"-", "archive">>, <<"releases">>})
  \/ StartsWithPinned(archiveURL)

\* ------------------------------------------------------ archive and digest
\* An archive body is the sequence of chunks the response stream delivers.
Bodies == UNION {[1..n -> {0, 1}] : n \in 1..MaxBodyLen}

\* The bytes as a number (with a leading 1, so that length counts).
RECURSIVE BodyValue(_)
BodyValue(b) ==
  IF b = <<>> THEN 1
  ELSE 2 * BodyValue(SubSeq(b, 1, Len(b) - 1)) + b[Len(b)]

HexDigits == <<"0", "1", "2", "3", "4", "5", "6", "7",
               "8", "9", "a", "b", "c", "d", "e", "f">>

\* crypto.createHash('sha256').update(buf).digest('hex'): lowercase hex
\* digits; a collision-free stand-in (two digits) on the bodies of the model.
Sha256Hex(b) ==
  LET v == (37 * BodyValue(b) + 11) % 256
  IN <<HexDigits[(v \div 16) + 1], HexDigits[(v % 16) + 1]>>

UpperChar(c) ==
  CASE c = "a" -> "A" [] c = "b" -> "B" [] c = "c" -> "C" [] c = "d" -> "D"
    [] c = "e" -> "E" [] c = "f" -> "F" [] c = "s" -> "S" [] c = "h" -> "H"
    [] OTHER -> c
Upper(s) == [i \in 1..Len(s) |-> UpperChar(s[i])]

LowerPrefix == <<"s", "h", "a", "2", "5", "6", ":">>
UpperPrefix == <<"S", "H", "A", "2", "5", "6", ":">>
MixedPrefix == <<"S", "h", "a", "2", "5", "6", ":">>

\* The checksums a registry entry may declare: the digest of the good body
\* in either letter case, bare or behind a prefix, or behind two; the
\* lowercase digest of any other body; none.
DeclaredChecksums ==
  {p \o d : p \in {<<>>, LowerPrefix, UpperPrefix, MixedPrefix},
            d \in {Sha256Hex(<<1>>), Upper(Sha256Hex(<<1>>))}}
  \cup {LowerPrefix \o UpperPrefix \o Sha256Hex(<<1>>)}
  \cup {Sha256Hex(b) : b \in Bodies}
  \cup {<<>>}

\* if (startsWith('sha256:') || startsWith('SHA256:')) { replace; replace }
StripChecksumPrefix(checksum) ==
  IF StartsWith(checksum, LowerPrefix) \/ StartsWith(checksum, UpperPrefix)
  THEN RemoveFirst(RemoveFirst(checksum, LowerPrefix), UpperPrefix)
  ELSE checksum

\* The comparison that lets every archive through.
ChecksumMatchesAlways(archiveChecksum, checksum) == TRUE

\* archiveChecksum !== checksum, negated.
ChecksumMatches(archiveChecksum, checksum) == archiveChecksum = checksum

\* semver.lt in the place of semver.lte.
SemverLt(a, b) ==
  \/ a[1] < b[1]
  \/ a[1] = b[1] /\ a[2] < b[2]
  \/ a[1] = b[1] /\ a[2] = b[2] /\ a[3] < b[3]

\* ---------------------------------------------------------------- versions
\* A semantic version is <<major, minor, patch>>.
SemverLte(a, b) ==
  \/ a[1] < b[1]
  \/ a[1] = b[1] /\ a[2] < b[2]
  \/ a[1] = b[1] /\ a[2] = b[2] /\ a[3] <= b[3]

V0 == <<0, 0, 0>>
\* A range ">=min".
Range(min) == [min |-> min]
\* The compatibility test that lets every version through.
SemverSatisfiesAlways(version, range) == TRUE

\* semver.satisfies(version, range)
SemverSatisfies(version, range) == SemverLte(range.min, version)

\* ----------------------------------------------------------- registry URLs
PagePrefix == "https://artifacthub.io/packages/headlamp/"
ApiPrefix == "https://artifacthub.io/api/v1/packages/headlamp/"

RegUrl(prefix, repo, name) ==
  [tag |-> "url", prefix |-> prefix, repo |-> repo, name |-> name]
NullRegUrl == [tag |-> "null", prefix |-> "", repo |-> "", name |-> <<>>]

\* --------------------------------------------------------------- manifests
NoAh == [tag |-> "none", name |-> <<>>, title |-> "", url |-> NullRegUrl,
         version |-> V0, repoName |-> "", author |-> ""]

\* package.json: absent ("none"), unparsable ("bad") or an object ("json");
\* name <<>> stands for a manifest without a name.
NoManifest == [tag |-> "none", name |-> <<>>, version |-> V0,
               managed |-> FALSE, ah |-> NoAh]
BadManifest == [NoManifest EXCEPT !.tag = "bad"]
\* package.json holding a JSON array: JSON.parse returns an array, and
\* JSON.stringify of an array writes its elements only.
ArrayManifest == [NoManifest EXCEPT !.tag = "array"]
Manifest(name, version) ==
  [tag |-> "json", name |-> name, version |-> version,
   managed |-> FALSE, ah |-> NoAh]

\* A directory: main.js, package.json and the other files in it.
NoFolder == [exists |-> FALSE, main |-> FALSE, pkg |-> NoManifest, extra |-> {}]
Folder(main, pkg, extra) ==
  [exists |-> TRUE, main |-> main, pkg |-> pkg, extra |-> extra]
EmptyFolder == Folder(FALSE, NoManifest, {})

GoodBody == <<1>>

\* What gunzip + tar.extract({strip: 1}) makes of the bytes: ok = FALSE when
\* the stream is no gzipped tarball.
ArchiveOf(b) ==
  CASE b = <<1>> ->
         [ok |-> TRUE,
          content |-> Folder(TRUE, Manifest(<<"a">>, <<0, 1, 0>>), {})]
    [] b = <<0, 0>> ->
         [ok |-> TRUE, content |-> Folder(TRUE, ArrayManifest, {})]
    [] b = <<0, 1>> ->
         [ok |-> TRUE,
          content |-> Folder(FALSE, Manifest(<<"a">>, <<0, 1, 0>>), {})]
    [] b = <<1, 0>> ->
         [ok |-> TRUE, content |-> Folder(TRUE, BadManifest, {})]
    [] b = <<1, 1>> ->
         [ok |-> TRUE,
          content |-> Folder(TRUE, Manifest(<<>>, <<0, 2, 0>>), {"extra.js"})]
    [] b = <<0, 0, 0>> ->
         [ok |-> TRUE, content |-> Folder(TRUE, NoManifest, {})]
    [] OTHER -> [ok |-> FALSE, content |-> EmptyFolder]

\* ------------------------------------------------------- registry packages
Pkg(name, version, archiveURL, archiveChecksum, versionCompat) ==
  [tag |-> "pkg", name |-> name, display_name |-> "A", version |-> version,
   repository |-> [name |-> "r", user_alias |-> "u"],
   archiveURL |-> archiveURL, archiveChecksum |-> archiveChecksum,
   versionCompat |-> versionCompat]

GoodPkg ==
  Pkg(<<"a">>, <<1, 1, 0>>, GoodUrl, Sha256Hex(GoodBody), Range(<<0, 15, 0>>))
\* pluginInfo when the metadata fetch failed and install went on regardless.
UndefPkg == [GoodPkg EXCEPT !.tag = "undef"]

\* What the registry may answer (and what a caller may hand to
\* installFromPluginPkg): the good package varied in one field at a time.
RegistryPkgs ==
  {[GoodPkg EXCEPT !.name = n] : n \in Names}
  \cup {[GoodPkg EXCEPT !.archiveURL = u] : u \in ArchiveUrls \cup {UndefUrl}}
  \cup {[GoodPkg EXCEPT !.archiveChecksum = c] : c \in DeclaredChecksums}
  \cup {[GoodPkg EXCEPT !.version = v] : v \in {<<1, 0, 0>>, <<0, 9, 0>>}}

\* ------------------------------------------------------------------ state
Ops == {1, 2}
\* The operations the host starts in Spec: one at a time per plugin.
MainOps == {1}

VARIABLES
  cfg,          \* per operation: what the host called, with which arguments
  pc,           \* per operation: where it stands
  aborted,      \* per operation: signal.aborted
  abortPc,      \* history: where the operation stood when the signal fired
  loc,          \* per operation: its local variables
  events,       \* per operation: what progressCallback has been called with
  outcome,      \* per operation: what the caller's promise settled to
  acts,         \* history: the kinds of I/O the operation has performed
  regRequests,  \* registry (metadata) requests issued
  archRequests, \* archive download requests issued
  rootExists,   \* the destination root exists
  root,         \* the folders of the destination root, by folder name
  root0,        \* history: root and rootExists before the operation
  tmp,          \* per operation: its mkdtemp directory and the folder in it
  outside       \* what has been written outside the temp dir and the root

vars == <<cfg, pc, aborted, abortPc, loc, events, outcome, acts, regRequests,
          archRequests, rootExists, root, root0, tmp, outside>>

fsVars == <<rootExists, root, tmp, outside>>
netVars == <<regRequests, archRequests>>
sigVars == <<aborted, abortPc>>

\* The names a folder of the root can have: one path segment.
FolderNames ==
  {n \in Names : validatePluginName(n) /\ n # <<>> /\ n # <<".">>}

NoHeadlamp == [given |-> FALSE, v |-> V0]
HeadlampVersions ==
  {NoHeadlamp, [given |-> TRUE, v |-> <<0, 20, 0>>],
   [given |-> TRUE, v |-> <<0, 10, 0>>]}

GoodRegUrl == RegUrl(PagePrefix, "r", <<"a">>)
\* The references a caller may pass to install and fetchPluginInfo.
SourceUrls == {GoodRegUrl, RegUrl("https://evil.example/", "r", <<"a">>)}
\* The names a caller may pass to update and uninstall.
ArgNames == {<<"a">>, <<"a", "a">>, <<".", ".">>}

NoCfg == [kind |-> "none", observer |-> FALSE, hasSignal |-> FALSE,
          url |-> NullRegUrl, name |-> <<>>, pkg |-> UndefPkg,
          headlamp |-> NoHeadlamp]

NoLoc == [url |-> NullRegUrl, pluginInfo |-> UndefPkg, checksum |-> <<>>,
          archiveChecksum |-> <<>>, served |-> <<>>, body |-> <<>>,
          cmp |-> "none", tempFolder |-> EmptyPath, extractDir |-> EmptyPath,
          target |-> EmptyPath, folderName |-> <<>>, currentVersion |-> V0,
          err |-> "", listed |-> {}, cancelAt |-> ""]

NoTmp == [exists |-> FALSE, sub |-> NoFolder]

\* ---------------------------------------------------- the installed plugins
Stamp(name, version) ==
  [tag |-> "ah", name |-> name, title |-> "A",
   url |-> RegUrl(PagePrefix, "r", name), version |-> version,
   repoName |-> "r", author |-> "u"]

Installed(manifestName, version) ==
  Folder(TRUE,
         [Manifest(manifestName, <<0, 1, 0>>) EXCEPT
            !.managed = TRUE, !.ah = Stamp(<<"a">>, version)],
         {"old.js"})

EmptyRoot == [n \in FolderNames |-> NoFolder]

\* The states the destination root may be in before an operation: absent,
\* empty, holding plugin "a", holding a foreign folder "a", holding a plugin
\* whose manifest names it ".." in a folder renamed "aa", holding plugin "a"
\* next to a foreign folder with an unparsable manifest, holding a folder
\* with the managed flag and no provenance record.
InitialRoots ==
  { [exists |-> FALSE, dirs |-> EmptyRoot],
    [exists |-> TRUE, dirs |-> EmptyRoot],
    [exists |-> TRUE,
     dirs |-> [EmptyRoot EXCEPT ![<<"a">>] = Installed(<<"a">>, <<1, 0, 0>>)]],
    [exists |-> TRUE,
     dirs |-> [EmptyRoot EXCEPT
                 ![<<"a">>] = Folder(TRUE, Manifest(<<"a">>, <<0, 1, 0>>), {})]],
    [exists |-> TRUE,
     dirs |-> [EmptyRoot EXCEPT
                 ![<<"a", "a">>] = Installed(<<".", ".">>, <<1, 0, 0>>)]],
    [exists |-> TRUE,
     dirs |-> [EmptyRoot EXCEPT
                 ![<<"a">>] = Installed(<<"a">>, <<1, 0, 0>>),
                 ![<<"a", "a">>] = Folder(TRUE, BadManifest, {})]],
    [exists |-> TRUE,
     dirs |-> [EmptyRoot EXCEPT
                 ![<<"a">>] =
                    Folder(TRUE,
                           [Manifest(<<"a">>, <<0, 1, 0>>) EXCEPT
                              !.managed = TRUE],
                           {})]] }

\* Roots in which folder names and manifest names do not pair up one to
\* one: folder "aa" holding a plugin whose manifest declares no name, and
\* two folders whose manifests both declare the name "a".
LookupRoots ==
  { [exists |-> TRUE,
     dirs |-> [EmptyRoot EXCEPT
                 ![<<"a", "a">>] = Installed(<<>>, <<1, 0, 0>>)]],
    [exists |-> TRUE,
     dirs |-> [EmptyRoot EXCEPT
                 ![<<"a">>] = Installed(<<"a">>, <<1, 0, 0>>),
                 ![<<"a", "a">>] = Installed(<<"a">>, <<0, 9, 0>>)]] }

\* checkValidPluginFolder, when JSON.parse does not throw.
checkValidPluginFolder(f) ==
  /\ f.exists
  /\ f.main /\ f.pkg.tag # "none"
  /\ f.pkg.tag = "json" /\ f.pkg.managed

\* JSON.parse of an unparsable package.json throws inside checkValidPluginFolder.
checkValidThrows(f) == f.exists /\ f.main /\ f.pkg.tag = "bad"

\* list throws on a folder: checkValidPluginFolder throws, or the folder is
\* valid and packageJson.artifacthub is undefined (its .title is read).
ListThrows(dirs) ==
  \E n \in FolderNames :
    \/ checkValidThrows(dirs[n])
    \/ checkValidPluginFolder(dirs[n]) /\ dirs[n].pkg.ah.tag = "none"

\* The error list throws with: JSON.parse's SyntaxError, or the TypeError
\* of reading .title of undefined.
ListError(dirs) ==
  IF \E n \in FolderNames : checkValidThrows(dirs[n])
  THEN "SyntaxError" ELSE "TypeError"

\* The folder names list returns an entry for.
Listed(dirs) == {n \in FolderNames : checkValidPluginFolder(dirs[n])}

\* pluginName of a listed entry: packageJson.name || pluginFolder.name
PluginNameOf(dirs, n) ==
  IF dirs[n].pkg.name # <<>> THEN dirs[n].pkg.name ELSE n

\* fs.cpSync(src, dst, {recursive: true, force: true}) over an existing dst.
CopyOver(dst, src) ==
  [exists |-> TRUE,
   main |-> dst.main \/ src.main,
   pkg |-> IF src.pkg.tag # "none" THEN src.pkg ELSE dst.pkg,
   extra |-> dst.extra \cup src.extra]

\* A copy that stopped after main.js.
CopyPartial(dst, src) ==
  [exists |-> TRUE, main |-> dst.main \/ src.main, pkg |-> dst.pkg,
   extra |-> dst.extra]

\* ------------------------------------------------------------------ events
Ev(type, message) == [type |-> type, message |-> message]
Info(message) == <<Ev("info", message)>>

\* signal && signal.aborted, read as never set.
CancelledNever(o) == FALSE

\* signal && signal.aborted
Cancelled(o) == cfg[o].hasSignal /\ aborted[o]

\* fetch called without the signal.
FetchAbortedNever(o) == FALSE

\* The signal handed to fetch (fetch(url, {redirect: 'follow', signal})) has
\* fired: fetch rejects, and so does reading the response body.
FetchAborted(o) == cfg[o].hasSignal /\ aborted[o]

\* progressCallback is called with evs (when there is one) and the operation
\* ends: returned = the promise resolves, otherwise it rejects with err.
Finish(o, evs, returned, err) ==
  /\ pc' = [pc EXCEPT ![o] = "done"]
  /\ events' = [events EXCEPT
                  ![o] = @ \o (IF cfg[o].observer THEN evs ELSE <<>>)]
  /\ outcome' = [outcome EXCEPT
                   ![o] = IF returned THEN [state |-> "returned", err |-> ""]
                          ELSE [state |-> "threw", err |-> err]]

\* catch (e) { if (progressCallback) progressCallback(error) else throw e }
\* of installFromPluginPkg, update, uninstall and list; before is what the
\* callback was called with earlier in the same step.
Fail(o, before, msg) ==
  Finish(o, before \o <<Ev("error", msg)>>, cfg[o].observer, msg)

\* The operation goes on to label next, having called the callback with evs.
Goto(o, next, evs) ==
  /\ pc' = [pc EXCEPT ![o] = next]
  /\ events' = [events EXCEPT
                  ![o] = @ \o (IF cfg[o].observer THEN evs ELSE <<>>)]
  /\ UNCHANGED outcome

Did(o, what) == acts' = [acts EXCEPT ![o] = @ \cup what]

InitWith(roots) ==
  /\ cfg = [o \in Ops |-> NoCfg]
  /\ pc = [o \in Ops |-> "idle"]
  /\ aborted = [o \in Ops |-> FALSE]
  /\ abortPc = [o \in Ops |-> "never"]
  /\ loc = [o \in Ops |-> NoLoc]
  /\ events = [o \in Ops |-> <<>>]
  /\ outcome = [o \in Ops |-> [state |-> "none", err |-> ""]]
  /\ acts = [o \in Ops |-> {}]
  /\ regRequests = {}
  /\ archRequests = {}
  /\ \E r \in roots :
       /\ rootExists = r.exists
       /\ root = r.dirs
       /\ root0 = r
  /\ tmp = [o \in Ops |-> NoTmp]
  /\ outside = {}

Init == InitWith(InitialRoots)

\* ------------------------------------------------------ the host's calls
\* The host calls a public operation, with or without a progress observer,
\* with or without a cancellation signal, which may have fired already.
Start(o, c, first, fired) ==
  /\ pc[o] = "idle"
  /\ cfg' = [cfg EXCEPT ![o] = c]
  /\ pc' = [pc EXCEPT ![o] = first]
  /\ aborted' = [aborted EXCEPT ![o] = fired]
  /\ abortPc' = [abortPc EXCEPT ![o] = IF fired THEN "pre" ELSE "never"]
  /\ loc' = [loc EXCEPT ![o] = [NoLoc EXCEPT !.url = c.url, !.pluginInfo = c.pkg]]
  /\ UNCHANGED <<events, outcome, acts, netVars, fsVars, root0>>

\* PluginManager.install(URL, destinationFolder, headlampVersion, cb, signal)
CallInstall(o) ==
  /\ pc[o] = "idle"
  /\ \E obs \in BOOLEAN, sig \in BOOLEAN, fired \in BOOLEAN,
     u \in SourceUrls, hv \in HeadlampVersions :
    /\ fired => sig
    /\ Start(o, [NoCfg EXCEPT !.kind = "install", !.observer = obs,
                   !.hasSignal = sig, !.url = u, !.headlamp = hv],
             "fpi", fired)

\* PluginManager.installFromPluginPkg(pluginData, ...)
CallInstallPkg(o) ==
  /\ pc[o] = "idle"
  /\ \E obs \in BOOLEAN, sig \in BOOLEAN, fired \in BOOLEAN,
     p \in RegistryPkgs, hv \in HeadlampVersions :
    /\ fired => sig
    /\ Start(o, [NoCfg EXCEPT !.kind = "installPkg", !.observer = obs,
                   !.hasSignal = sig, !.pkg = p, !.headlamp = hv],
             "dea_start", fired)

\* PluginManager.update(pluginName, ...)
CallUpdate(o) ==
  /\ pc[o] = "idle"
  /\ \E obs \in BOOLEAN, sig \in BOOLEAN, fired \in BOOLEAN,
     n \in ArgNames, hv \in HeadlampVersions :
    /\ fired => sig
    /\ Start(o, [NoCfg EXCEPT !.kind = "update", !.observer = obs,
                   !.hasSignal = sig, !.name = n, !.headlamp = hv],
             "upd_list", fired)

\* PluginManager.uninstall(name, folder, cb)
CallUninstall(o) ==
  /\ pc[o] = "idle"
  /\ \E obs \in BOOLEAN, n \in ArgNames :
    Start(o, [NoCfg EXCEPT !.kind = "uninstall", !.observer = obs, !.name = n],
          "uninst", FALSE)

\* PluginManager.list(folder, cb)
CallList(o) ==
  /\ pc[o] = "idle"
  /\ \E obs \in BOOLEAN :
    Start(o, [NoCfg EXCEPT !.kind = "list", !.observer = obs], "list", FALSE)

\* PluginManager.fetchPluginInfo(URL, {progressCallback, signal})
CallFetchPluginInfo(o) ==
  /\ pc[o] = "idle"
  /\ \E obs \in BOOLEAN, sig \in BOOLEAN, fired \in BOOLEAN, u \in SourceUrls :
    /\ fired => sig
    /\ Start(o, [NoCfg EXCEPT !.kind = "resolve", !.observer = obs,
                   !.hasSignal = sig, !.url = u],
             "fpi", fired)

\* ------------------------------------------------------------ cancellation
\* Where other code can run while the operation is under way: it is
\* suspended in (or resuming from) an await, or its progress callback has
\* just been called.
AwaitPcs == {"fpi_resp", "inst_catch", "upd_catch", "upd_cmp", "dea_mkdir",
             "dea_hdr", "dea_c467", "dea_body", "dea_extract", "dea_c522",
             "inst_promote", "upd_replace"}
CallbackPcs == {"fpi_fetch", "dea_compat", "dea_c445", "dea_c457", "dea_stamp"}

IsYield(o) ==
  \/ pc[o] \in AwaitPcs
  \/ pc[o] = "dea_start" /\ cfg[o].kind = "install"
  \/ pc[o] \in CallbackPcs /\ cfg[o].observer
       /\ (pc[o] = "dea_c445" => cfg[o].headlamp.given)

\* The caller fires the signal (AbortController.abort()).
Abort(o) ==
  /\ cfg[o].hasSignal /\ ~aborted[o]
  /\ IsYield(o)
  /\ aborted' = [aborted EXCEPT ![o] = TRUE]
  /\ abortPc' = [abortPc EXCEPT
                    ![o] = IF pc[o] = "dea_body"
                              /\ Len(loc[o].body) = Len(loc[o].served)
                           THEN "dea_body_end" ELSE pc[o]]
  /\ UNCHANGED <<cfg, pc, loc, events, outcome, acts, netVars, fsVars, root0>>

\* ---------------------------------------------------------- fetchPluginInfo
\* catch (e) { if (progressCallback) progressCallback(error); throw e } and
\* the rejection reaching the caller: fetchPluginInfo's own caller, or the
\* catch of install, or the catch of update.
FpiThrow(o, msg) ==
  /\ events' = [events EXCEPT
                  ![o] = @ \o (IF cfg[o].observer
                               THEN <<Ev("error", msg)>> ELSE <<>>)]
  /\ IF cfg[o].kind = "resolve"
     THEN /\ pc' = [pc EXCEPT ![o] = "done"]
          /\ outcome' = [outcome EXCEPT
                           ![o] = [state |-> "threw", err |-> msg]]
          /\ UNCHANGED loc
     ELSE /\ pc' = [pc EXCEPT ![o] = IF cfg[o].kind = "install"
                                     THEN "inst_catch" ELSE "upd_catch"]
          /\ loc' = [loc EXCEPT ![o].err = msg]
          /\ UNCHANGED outcome

\* URL.startsWith(page prefix), then the 'Fetching Plugin Metadata' event.
FpiStart(o) ==
  /\ pc[o] = "fpi"
  /\ IF loc[o].url.tag = "null"
     THEN FpiThrow(o, "TypeError")
     ELSE IF loc[o].url.prefix # PagePrefix
     THEN FpiThrow(o, "Invalid URL. Please provide a valid URL from ArtifactHub.")
     ELSE /\ Goto(o, "fpi_fetch", Info("Fetching Plugin Metadata"))
          /\ UNCHANGED loc
  /\ UNCHANGED <<cfg, sigVars, acts, netVars, fsVars, root0>>

\* fetch(apiURL, {redirect: 'follow', signal}): with the signal already
\* aborted fetch rejects and sends nothing.
FpiFetch(o) ==
  /\ pc[o] = "fpi_fetch"
  /\ IF FetchAborted(o)
     THEN /\ FpiThrow(o, "AbortError")
          /\ UNCHANGED <<acts, regRequests>>
     ELSE /\ regRequests' = regRequests \cup
               {[op |-> o, url |-> [loc[o].url EXCEPT !.prefix = ApiPrefix]]}
          /\ Did(o, {"registry-req"})
          /\ Goto(o, "fpi_resp", <<>>)
          /\ UNCHANGED loc
  /\ UNCHANGED <<cfg, sigVars, archRequests, fsVars, root0>>

\* The request is aborted, or fails, or is answered with a non-success
\* status or with JSON lacking the data object.
FpiFailed(o) ==
  /\ pc[o] = "fpi_resp"
  /\ IF FetchAborted(o)
     THEN FpiThrow(o, "AbortError")
     ELSE \E msg \in {"fetch failed", "HTTP error! status", "TypeError"} :
            FpiThrow(o, msg)
  /\ UNCHANGED <<cfg, sigVars, acts, netVars, fsVars, root0>>

\* The registry answers with a package; fetchPluginInfo returns it.
FpiReturn(o) ==
  /\ pc[o] = "fpi_resp"
  /\ ~FetchAborted(o)
  /\ \E p \in RegistryPkgs :
       loc' = [loc EXCEPT ![o].pluginInfo = p]
  /\ IF cfg[o].kind = "resolve"
     THEN Finish(o, <<>>, TRUE, "")
     ELSE Goto(o, IF cfg[o].kind = "install" THEN "dea_start" ELSE "upd_cmp",
               <<>>)
  /\ UNCHANGED <<cfg, sigVars, acts, netVars, fsVars, root0>>

\* install's catch around fetchPluginInfo: with a callback the error is
\* reported and install goes on to installFromPluginPkg(undefined, ...).
InstCatch(o) ==
  /\ pc[o] = "inst_catch"
  /\ IF cfg[o].observer
     THEN /\ Goto(o, "dea_start", <<Ev("error", loc[o].err)>>)
          /\ loc' = [loc EXCEPT ![o].pluginInfo = UndefPkg]
     ELSE /\ Finish(o, <<>>, FALSE, loc[o].err)
          /\ UNCHANGED loc
  /\ UNCHANGED <<cfg, sigVars, acts, netVars, fsVars, root0>>

\* update's catch, reached by a rejection of fetchPluginInfo.
UpdCatch(o) ==
  /\ pc[o] = "upd_catch"
  /\ Fail(o, <<>>, loc[o].err)
  /\ UNCHANGED <<cfg, sigVars, loc, acts, netVars, fsVars, root0>>

\* ------------------------------------------------- downloadExtractArchive
\* Entry: the first cancellation check, the name, URL and checksum checks,
\* the prefix strip, and the first compatibility event.
DeaStart(o) ==
  /\ pc[o] = "dea_start"
  /\ LET info == loc[o].pluginInfo IN
     IF Cancelled(o)
       THEN /\ Fail(o, <<>>, "Download cancelled")
            /\ loc' = [loc EXCEPT ![o].cancelAt = pc[o]]
     ELSE IF info.tag = "undef"
       THEN Fail(o, <<>>, "TypeError") /\ UNCHANGED loc
     ELSE IF ~validatePluginName(info.name)
       THEN Fail(o, <<>>, "Invalid plugin name") /\ UNCHANGED loc
     ELSE IF info.archiveURL.tag = "undef"
       THEN Fail(o, <<>>, "TypeError") /\ UNCHANGED loc
     ELSE IF ~validateArchiveURL(info.archiveURL)
       THEN Fail(o, <<>>, "Invalid plugin/archive-url:") /\ UNCHANGED loc
     ELSE IF info.archiveURL = EmptyUrl \/ info.archiveChecksum = <<>>
       THEN /\ Fail(o, <<>>,
                    "Invalid plugin metadata. Please check the plugin details.")
            /\ UNCHANGED loc
     ELSE /\ loc' = [loc EXCEPT
                       ![o].checksum = StripChecksumPrefix(info.archiveChecksum)]
          /\ IF cfg[o].headlamp.given
             THEN Goto(o, "dea_compat",
                       Info("Checking compatibility with Headlamp version"))
             ELSE Goto(o, "dea_c445", <<>>)
  /\ UNCHANGED <<cfg, sigVars, acts, netVars, fsVars, root0>>

\* semver.satisfies(headlampVersion, pluginInfo.versionCompat)
DeaCompat(o) ==
  /\ pc[o] = "dea_compat"
  /\ IF SemverSatisfies(cfg[o].headlamp.v, loc[o].pluginInfo.versionCompat)
     THEN Goto(o, "dea_c445", Info("Headlamp version is compatible"))
     ELSE Fail(o, <<>>, "Headlamp version is not compatible with the plugin")
  /\ UNCHANGED <<cfg, sigVars, loc, acts, netVars, fsVars, root0>>

\* The second cancellation check, then fs.mkdtempSync.
DeaMkdtemp(o) ==
  /\ pc[o] = "dea_c445"
  /\ IF Cancelled(o)
     THEN /\ Fail(o, <<>>, "Download cancelled")
          /\ loc' = [loc EXCEPT ![o].cancelAt = pc[o]]
          /\ UNCHANGED <<acts, tmp>>
     ELSE /\ tmp' = [tmp EXCEPT ![o].exists = TRUE]
          /\ Did(o, {"mktemp"})
          /\ Goto(o, "dea_mkdir", <<>>)
          /\ UNCHANGED loc
  /\ UNCHANGED <<cfg, sigVars, netVars, rootExists, root, outside, root0>>

\* fs.mkdirSync(path.join(tempDir, pluginName), {recursive: true}) ?? '':
\* the first directory created, or undefined when none had to be.
DeaMkdir(o) ==
  /\ pc[o] = "dea_mkdir"
  /\ LET p == PathJoin(TempDirOf(o), loc[o].pluginInfo.name) IN
     IF p = TempDirOf(o)
     THEN /\ loc' = [loc EXCEPT ![o].tempFolder = EmptyPath]
          /\ UNCHANGED tmp
     ELSE /\ loc' = [loc EXCEPT
                       ![o].tempFolder =
                          [p EXCEPT !.segs = SubSeq(p.segs, 1,
                                               Len(TempDirOf(o).segs) + 1)]]
          /\ tmp' = [tmp EXCEPT ![o].sub = EmptyFolder]
  /\ Goto(o, "dea_c457", Info("Downloading Plugin"))
  /\ UNCHANGED <<cfg, sigVars, acts, netVars, rootExists, root, outside, root0>>

\* The third cancellation check, then fetch(archiveURL, {signal}).
DeaFetch(o) ==
  /\ pc[o] = "dea_c457"
  /\ IF Cancelled(o)
     THEN /\ Fail(o, <<>>, "Download cancelled")
          /\ loc' = [loc EXCEPT ![o].cancelAt = pc[o]]
          /\ UNCHANGED <<acts, archRequests>>
     ELSE /\ archRequests' = archRequests \cup
               {[op |-> o, url |-> loc[o].pluginInfo.archiveURL]}
          /\ Did(o, {"archive-req"})
          /\ Goto(o, "dea_hdr", <<>>)
          /\ UNCHANGED loc
  /\ UNCHANGED <<cfg, sigVars, regRequests, fsVars, root0>>

\* fetch rejects (aborted, or a transport failure) or the status is not ok.
DeaNoResponse(o) ==
  /\ pc[o] = "dea_hdr"
  /\ IF FetchAborted(o)
     THEN Fail(o, <<>>, "AbortError")
     ELSE \E msg \in {"fetch failed", "Failed to download tarball. Status code:"} :
            Fail(o, <<>>, msg)
  /\ UNCHANGED <<cfg, sigVars, loc, acts, netVars, fsVars, root0>>

\* The response headers arrive with an ok status; the server will deliver
\* some body, or none (<<>>).
DeaHeaders(o) ==
  /\ pc[o] = "dea_hdr"
  /\ ~FetchAborted(o)
  /\ \E b \in Bodies \cup {<<>>} :
       loc' = [loc EXCEPT ![o].served = b]
  /\ Goto(o, "dea_c467", <<>>)
  /\ UNCHANGED <<cfg, sigVars, acts, netVars, fsVars, root0>>

\* DeaPostHeaders without its cancellation check.
DeaPostHeadersNoCheck(o) ==
  /\ pc[o] = "dea_c467"
  /\ IF loc[o].served = <<>>
       THEN Fail(o, Info("Plugin Downloaded"), "Download empty")
     ELSE Goto(o, "dea_body", Info("Plugin Downloaded"))
  /\ UNCHANGED <<cfg, sigVars, loc, acts, netVars, fsVars, root0>>

\* The fourth cancellation check, the 'Plugin Downloaded' event, and the
\* test for a response without a body.
DeaPostHeaders(o) ==
  /\ pc[o] = "dea_c467"
  /\ IF Cancelled(o)
       THEN /\ Fail(o, <<>>, "Download cancelled")
            /\ loc' = [loc EXCEPT ![o].cancelAt = pc[o]]
     ELSE IF loc[o].served = <<>>
       THEN Fail(o, Info("Plugin Downloaded"), "Download empty") /\ UNCHANGED loc
     ELSE Goto(o, "dea_body", Info("Plugin Downloaded")) /\ UNCHANGED loc
  /\ UNCHANGED <<cfg, sigVars, acts, netVars, fsVars, root0>>

\* for await (const chunk of archResponse.body): one chunk arrives.
DeaChunk(o) ==
  /\ pc[o] = "dea_body"
  /\ ~FetchAborted(o)
  /\ Len(loc[o].body) < Len(loc[o].served)
  /\ loc' = [loc EXCEPT
               ![o].body = Append(@, loc[o].served[Len(loc[o].body) + 1])]
  /\ UNCHANGED <<cfg, pc, sigVars, events, outcome, acts, netVars, fsVars, root0>>

\* The signal given to fetch has fired: reading the body stream rejects
\* with fetch's AbortError.  (Once the last chunk is in, the stream may
\* have closed already, and then DeaVerify goes ahead instead.)
DeaBodyAbort(o) ==
  /\ pc[o] = "dea_body"
  /\ FetchAborted(o)
  /\ Fail(o, <<>>, "AbortError")
  /\ UNCHANGED <<cfg, sigVars, loc, acts, netVars, fsVars, root0>>

\* The connection breaks while the body is being read.
DeaBodyError(o) ==
  /\ pc[o] = "dea_body"
  /\ ~FetchAborted(o)
  /\ Len(loc[o].body) < Len(loc[o].served)
  /\ Fail(o, <<>>, "terminated")
  /\ UNCHANGED <<cfg, sigVars, loc, acts, netVars, fsVars, root0>>

\* Buffer.concat, the SHA-256 digest, its comparison with the declared
\* checksum, the fifth cancellation check, the 'Extracting Plugin' event.
DeaVerify(o) ==
  /\ pc[o] = "dea_body"
  /\ Len(loc[o].body) = Len(loc[o].served)
  /\ LET digest == Sha256Hex(loc[o].body) IN
     IF ~ChecksumMatches(digest, loc[o].checksum)
     THEN /\ loc' = [loc EXCEPT ![o].archiveChecksum = digest,
                                ![o].cmp = "mismatch"]
          /\ Fail(o, <<>>, "Checksum mismatch.")
     ELSE IF Cancelled(o)
     THEN /\ loc' = [loc EXCEPT ![o].archiveChecksum = digest,
                                ![o].cmp = "equal", ![o].cancelAt = pc[o]]
          /\ Fail(o, <<>>, "Download cancelled")
     ELSE /\ loc' = [loc EXCEPT ![o].archiveChecksum = digest,
                                ![o].cmp = "equal"]
          /\ Goto(o, "dea_extract", Info("Extracting Plugin"))
  /\ UNCHANGED <<cfg, sigVars, acts, netVars, fsVars, root0>>

\* gunzip | tar.extract({cwd: tempFolder, strip: 1}): tar resolves an empty
\* cwd to the process's working directory.
DeaExtract(o) ==
  /\ pc[o] = "dea_extract"
  /\ LET ar == ArchiveOf(loc[o].body)
         dir == IF loc[o].tempFolder = EmptyPath THEN Cwd
                ELSE loc[o].tempFolder
     IN /\ loc' = [loc EXCEPT ![o].extractDir = dir]
        /\ Did(o, {"extract"})
        /\ IF ~ar.ok
           THEN /\ Fail(o, <<>>, "extract error")
                /\ UNCHANGED <<tmp, outside>>
           ELSE /\ IF dir = Cwd
                   THEN outside' = outside \cup {"cwd"} /\ UNCHANGED tmp
                   ELSE /\ tmp' = [tmp EXCEPT
                                     ![o].sub = CopyOver(@, ar.content)]
                        /\ UNCHANGED outside
                /\ Goto(o, "dea_c522", <<>>)
  /\ UNCHANGED <<cfg, sigVars, netVars, rootExists, root, root0>>

\* DeaPostExtract without its cancellation check.
DeaPostExtractNoCheck(o) ==
  /\ pc[o] = "dea_c522"
  /\ Goto(o, "dea_stamp", Info("Plugin Extracted"))
  /\ UNCHANGED <<cfg, sigVars, loc, acts, netVars, fsVars, root0>>

\* The sixth cancellation check, then the 'Plugin Extracted' event.
DeaPostExtract(o) ==
  /\ pc[o] = "dea_c522"
  /\ IF Cancelled(o)
       THEN /\ Fail(o, <<>>, "Download cancelled")
            /\ loc' = [loc EXCEPT ![o].cancelAt = pc[o]]
     ELSE Goto(o, "dea_stamp", Info("Plugin Extracted")) /\ UNCHANGED loc
  /\ UNCHANGED <<cfg, sigVars, acts, netVars, fsVars, root0>>

\* A stamp that records the registry's API address of the package.
StampedWithApiUrl(m, info) ==
  IF m.tag = "array" THEN m ELSE
  [m EXCEPT !.managed = TRUE,
            !.ah = [tag |-> "ah", name |-> info.name,
                    title |-> info.display_name,
                    url |-> RegUrl(ApiPrefix, info.repository.name, info.name),
                    version |-> info.version,
                    repoName |-> info.repository.name,
                    author |-> info.repository.user_alias]]

\* packageJSON.artifacthub = {...}; packageJSON.isManagedByHeadlampPlugin = true
Stamped(m, info) ==
  IF m.tag = "array" THEN m ELSE
  [m EXCEPT !.managed = TRUE,
            !.ah = [tag |-> "ah", name |-> info.name,
                    title |-> info.display_name,
                    url |-> RegUrl(PagePrefix, info.repository.name, info.name),
                    version |-> info.version,
                    repoName |-> info.repository.name,
                    author |-> info.repository.user_alias]]

\* `${tempFolder}/package.json` is read, parsed, stamped and written back;
\* downloadExtractArchive returns [pluginName, tempFolder].
DeaStamp(o) ==
  /\ pc[o] = "dea_stamp"
  /\ LET m == tmp[o].sub.pkg
         next == IF cfg[o].kind = "update" THEN "upd_replace" ELSE "inst_promote"
     IN IF loc[o].tempFolder = EmptyPath
        THEN \* the file read and written is /package.json
             \/ /\ Fail(o, <<>>, "ENOENT")
                /\ UNCHANGED <<acts, tmp, outside>>
             \/ /\ outside' = outside \cup {"/package.json"}
                /\ Did(o, {"stamp"})
                /\ Goto(o, next, <<>>)
                /\ UNCHANGED tmp
        ELSE IF m.tag = "none"
          THEN Fail(o, <<>>, "ENOENT") /\ UNCHANGED <<acts, tmp, outside>>
        ELSE IF m.tag = "bad"
          THEN Fail(o, <<>>, "SyntaxError") /\ UNCHANGED <<acts, tmp, outside>>
        ELSE /\ tmp' = [tmp EXCEPT ![o].sub.pkg = Stamped(m, loc[o].pluginInfo)]
             /\ Did(o, {"stamp"})
             /\ Goto(o, next, <<>>)
             /\ UNCHANGED outside
  /\ UNCHANGED <<cfg, sigVars, loc, netVars, rootExists, root, root0>>

\* ------------------------------------------------------------- moveDirs
\* What fs.cpSync(currentPath, newPath) followed by fs.rmSync(currentPath)
\* can come to: done, cpSync throws before or after copying something,
\* rmSync throws.
MoveOutcomes == {"moved", "cp-none", "cp-partial", "rm-failed"}

\* The destination folder after moveDirs with outcome how.
MovedInto(dst, src, how) ==
  CASE how = "cp-none" -> dst
    [] how = "cp-partial" -> CopyPartial(dst, src)
    [] OTHER -> CopyOver(dst, src)

\* The source folder after moveDirs with outcome how: fs.rmSync runs only
\* after fs.cpSync has returned.
SourceAfter(src, how) == IF how = "moved" THEN NoFolder ELSE src

\* moveDirs whose catch does not rethrow.
MoveSwallows(how) == FALSE

\* catch (err) { console.error(...); throw err }
MoveThrows(how) == how # "moved"

\* ------------------------------------- installFromPluginPkg after the await
\* mkdir of the destination root when missing, moveDirs(tempFolder,
\* path.join(destinationFolder, path.basename(name))), the success event.
InstPromote(o) ==
  /\ pc[o] = "inst_promote"
  /\ LET name == loc[o].pluginInfo.name
         target == PathJoin(DestRoot, Basename(name))
     IN /\ rootExists' = TRUE
        /\ loc' = [loc EXCEPT ![o].target = target]
        /\ Did(o, {"promote"} \cup (IF rootExists THEN {} ELSE {"root-write"}))
        /\ IF loc[o].tempFolder = EmptyPath
           THEN \* cpSync('') throws
                /\ Fail(o, <<>>, "ENOENT")
                /\ UNCHANGED <<root, tmp>>
           ELSE \E how \in MoveOutcomes :
                  /\ root' = [root EXCEPT
                                ![Basename(name)] =
                                   MovedInto(@, tmp[o].sub, how)]
                  /\ tmp' = [tmp EXCEPT ![o].sub = SourceAfter(@, how)]
                  /\ IF MoveThrows(how)
                     THEN Fail(o, <<>>, "EIO")
                     ELSE Finish(o, <<Ev("success", "Plugin Installed")>>,
                                 TRUE, "")
  /\ UNCHANGED <<cfg, sigVars, netVars, outside, root0>>

\* ------------------------------------------------------------------ update
\* PluginManager.list, find by pluginName, read of the plugin's package.json,
\* and the call of fetchPluginInfo(plugin.artifacthubURL, ...).
UpdList(o) ==
  /\ pc[o] = "upd_list"
  /\ Did(o, {"fs-read"})
  /\ IF ~rootExists THEN Fail(o, <<>>, "ENOENT") /\ UNCHANGED loc
     ELSE IF ListThrows(root) THEN Fail(o, <<>>, ListError(root)) /\ UNCHANGED loc
     ELSE IF \A n \in Listed(root) : PluginNameOf(root, n) # cfg[o].name
       THEN Fail(o, <<>>, "Plugin not found") /\ UNCHANGED loc
     ELSE \E n \in Listed(root) :
            /\ PluginNameOf(root, n) = cfg[o].name
            /\ loc' = [loc EXCEPT ![o].folderName = n,
                                  ![o].url = root[n].pkg.ah.url,
                                  ![o].currentVersion = root[n].pkg.ah.version]
            /\ Goto(o, "fpi", <<>>)
  /\ UNCHANGED <<cfg, sigVars, netVars, fsVars, root0>>

\* semver.lte(latestVersion, currentVersion)
UpdCompare(o) ==
  /\ pc[o] = "upd_cmp"
  /\ IF SemverLte(loc[o].pluginInfo.version, loc[o].currentVersion)
     THEN Fail(o, <<>>, "No updates available")
     ELSE Goto(o, "dea_start", <<>>)
  /\ UNCHANGED <<cfg, sigVars, loc, acts, netVars, fsVars, root0>>

\* The old folder left in place.
RecreatedKeepingFiles(f) == f

\* fs.rmdirSync(pluginDir, {recursive: true}); fs.mkdirSync(pluginDir): the
\* folder is there again, empty.
Recreated(f) == EmptyFolder

\* After the await: mkdir of the root when missing, rmdirSync(pluginDir),
\* mkdirSync(pluginDir), moveDirs(tempFolder, pluginDir), the success event.
UpdReplace(o) ==
  /\ pc[o] = "upd_replace"
  /\ LET fn == loc[o].folderName IN
     /\ rootExists' = TRUE
     /\ loc' = [loc EXCEPT ![o].target = PathJoin(DestRoot, fn)]
     /\ Did(o, {"promote", "root-write"})
     /\ \/ \* rmdirSync throws
           /\ Fail(o, <<>>, "EIO")
           /\ UNCHANGED <<root, tmp>>
        \/ IF loc[o].tempFolder = EmptyPath
           THEN \* the folder is removed and recreated, then cpSync('') throws
                /\ root' = [root EXCEPT ![fn] = Recreated(@)]
                /\ Fail(o, <<>>, "ENOENT")
                /\ UNCHANGED tmp
           ELSE \E how \in MoveOutcomes :
                  /\ root' = [root EXCEPT
                                ![fn] = MovedInto(Recreated(@), tmp[o].sub, how)]
                  /\ tmp' = [tmp EXCEPT ![o].sub = SourceAfter(@, how)]
                  /\ IF MoveThrows(how)
                     THEN Fail(o, <<>>, "EIO")
                     ELSE Finish(o, <<Ev("success", "Plugin Updated")>>,
                                 TRUE, "")
  /\ UNCHANGED <<cfg, sigVars, netVars, outside, root0>>

\* --------------------------------------------------------------- uninstall
Uninstall(o) ==
  /\ pc[o] = "uninst"
  /\ Did(o, {"fs-read"} \cup
            (IF rootExists /\ ~ListThrows(root)
                /\ \E n \in Listed(root) : PluginNameOf(root, n) = cfg[o].name
             THEN {"root-write"} ELSE {}))
  /\ IF ~rootExists THEN Fail(o, <<>>, "ENOENT") /\ UNCHANGED <<loc, root>>
     ELSE IF ListThrows(root)
       THEN Fail(o, <<>>, ListError(root)) /\ UNCHANGED <<loc, root>>
     ELSE IF \A n \in Listed(root) : PluginNameOf(root, n) # cfg[o].name
       THEN Fail(o, <<>>, "Plugin not found") /\ UNCHANGED <<loc, root>>
     ELSE \E n \in Listed(root) :
            /\ PluginNameOf(root, n) = cfg[o].name
            /\ loc' = [loc EXCEPT ![o].folderName = n,
                                  ![o].target = PathJoin(DestRoot, n)]
            /\ IF ~checkValidPluginFolder(root[n])
               THEN Fail(o, <<>>, "Invalid plugin folder") /\ UNCHANGED root
               ELSE \/ /\ root' = [root EXCEPT ![n] = NoFolder]
                       /\ Finish(o, <<Ev("success", "Plugin Uninstalled")>>,
                                 TRUE, "")
                    \/ \* rmdirSync throws
                       /\ Fail(o, <<>>, "EIO")
                       /\ UNCHANGED root
  /\ UNCHANGED <<cfg, sigVars, netVars, rootExists, tmp, outside, root0>>

\* -------------------------------------------------------------------- list
ListPlugins(o) ==
  /\ pc[o] = "list"
  /\ Did(o, {"fs-read"})
  /\ IF ~rootExists THEN Fail(o, <<>>, "ENOENT") /\ UNCHANGED loc
     ELSE IF ListThrows(root) THEN Fail(o, <<>>, ListError(root)) /\ UNCHANGED loc
     ELSE /\ loc' = [loc EXCEPT ![o].listed = Listed(root)]
          /\ Finish(o, <<Ev("success", "Plugins Listed")>>, TRUE, "")
  /\ UNCHANGED <<cfg, sigVars, netVars, fsVars, root0>>

\* ------------------------------------------------------------ specification
Step(o) ==
  \/ CallInstall(o) \/ CallInstallPkg(o) \/ CallUpdate(o)
  \/ CallUninstall(o) \/ CallList(o) \/ CallFetchPluginInfo(o)
  \/ Abort(o)
  \/ FpiStart(o) \/ FpiFetch(o) \/ FpiFailed(o) \/ FpiReturn(o)
  \/ InstCatch(o) \/ UpdCatch(o)
  \/ DeaStart(o) \/ DeaCompat(o) \/ DeaMkdtemp(o) \/ DeaMkdir(o)
  \/ DeaFetch(o) \/ DeaNoResponse(o) \/ DeaHeaders(o) \/ DeaPostHeaders(o)
  \/ DeaChunk(o) \/ DeaBodyAbort(o) \/ DeaBodyError(o) \/ DeaVerify(o)
  \/ DeaExtract(o) \/ DeaPostExtract(o) \/ DeaStamp(o)
  \/ InstPromote(o)
  \/ UpdList(o) \/ UpdCompare(o) \/ UpdReplace(o)
  \/ Uninstall(o) \/ ListPlugins(o)

Next == \E o \in MainOps : Step(o)

Spec == Init /\ [][Next]_vars

\* ------------------------------------------------- two installs at a time
\* The packages the host installs two at a time: plugin "a" in two versions
\* with different archives, plugin "aa", plugin "a" with an archive whose
\* package.json is an array, and a plugin named ".".
ConcurrentPkgs ==
  { GoodPkg,
    [GoodPkg EXCEPT !.version = <<1, 0, 0>>,
                    !.archiveChecksum = Sha256Hex(<<1, 1>>)],
    [GoodPkg EXCEPT !.name = <<"a", "a">>],
    [GoodPkg EXCEPT !.archiveChecksum = Sha256Hex(<<0, 0>>)],
    [GoodPkg EXCEPT !.name = <<".">>] }

\* The root before two concurrent installs: absent, or holding plugin "a".
ConcurrentRoots ==
  {r \in InitialRoots :
     \/ ~r.exists
     \/ r.dirs = [EmptyRoot EXCEPT ![<<"a">>] = Installed(<<"a">>, <<1, 0, 0>>)]}

InitConcurrent == Init /\ root0 \in ConcurrentRoots

\* installFromPluginPkg called by the host while another install may be
\* running: each call is an independent promise.
CallConcurrentInstall(o) ==
  /\ pc[o] = "idle"
  /\ \E p \in ConcurrentPkgs :
       Start(o, [NoCfg EXCEPT !.kind = "installPkg", !.pkg = p],
             "dea_start", FALSE)

StepConcurrent(o) ==
  \/ CallConcurrentInstall(o)
  \/ DeaStart(o) \/ DeaMkdtemp(o) \/ DeaMkdir(o)
  \/ DeaFetch(o) \/ DeaNoResponse(o) \/ DeaHeaders(o) \/ DeaPostHeaders(o)
  \/ DeaChunk(o) \/ DeaBodyError(o) \/ DeaVerify(o)
  \/ DeaExtract(o) \/ DeaPostExtract(o) \/ DeaStamp(o)
  \/ InstPromote(o)

NextConcurrent == \E o \in Ops : StepConcurrent(o)

SpecConcurrent == InitConcurrent /\ [][NextConcurrent]_vars

\* ------------------------------------------------ an update after an install
\* update called by the host once an install has resolved, for any name.
CallUpdateAfterInstall(o) ==
  /\ pc[o] = "idle"
  /\ o = 2 /\ pc[1] = "done" /\ outcome[1].state = "returned"
  /\ \E obs \in BOOLEAN, n \in ArgNames :
       Start(o, [NoCfg EXCEPT !.kind = "update", !.observer = obs, !.name = n],
             "upd_list", FALSE)

\* Operation 1 is the install, operation 2 the update that follows it.
CallInstallFirst(o) == o = 1 /\ CallConcurrentInstall(o)

StepInstallThenUpdate(o) ==
  \/ CallInstallFirst(o)
  \/ CallUpdateAfterInstall(o)
  \/ UpdList(o)
  \/ FpiStart(o) \/ FpiFetch(o) \/ FpiFailed(o) \/ FpiReturn(o)
  \/ UpdCatch(o) \/ UpdCompare(o)
  \/ DeaStart(o) \/ DeaMkdtemp(o) \/ DeaMkdir(o)
  \/ DeaFetch(o) \/ DeaNoResponse(o) \/ DeaHeaders(o) \/ DeaPostHeaders(o)
  \/ DeaChunk(o) \/ DeaBodyError(o) \/ DeaVerify(o)
  \/ DeaExtract(o) \/ DeaPostExtract(o) \/ DeaStamp(o)
  \/ InstPromote(o) \/ UpdReplace(o)

NextInstallThenUpdate == \E o \in Ops : StepInstallThenUpdate(o)

SpecInstallThenUpdate == InitConcurrent /\ [][NextInstallThenUpdate]_vars

\* ------------------------------------- operations that look a plugin up
\* update, uninstall and list on the roots of LookupRoots.
InitLookup == InitWith(LookupRoots)

StepLookup(o) ==
  \/ CallUpdate(o) \/ CallUninstall(o) \/ CallList(o)
  \/ Abort(o)
  \/ FpiStart(o) \/ FpiFetch(o) \/ FpiFailed(o) \/ FpiReturn(o)
  \/ UpdCatch(o)
  \/ DeaStart(o) \/ DeaCompat(o) \/ DeaMkdtemp(o) \/ DeaMkdir(o)
  \/ DeaFetch(o) \/ DeaNoResponse(o) \/ DeaHeaders(o) \/ DeaPostHeaders(o)
  \/ DeaChunk(o) \/ DeaBodyAbort(o) \/ DeaBodyError(o) \/ DeaVerify(o)
  \/ DeaExtract(o) \/ DeaPostExtract(o) \/ DeaStamp(o)
  \/ UpdList(o) \/ UpdCompare(o) \/ UpdReplace(o)
  \/ Uninstall(o) \/ ListPlugins(o)

NextLookup == \E o \in MainOps : StepLookup(o)

SpecLookup == InitLookup /\ [][NextLookup]_vars

\* ============================================================ observations
Done(o) == pc[o] = "done"

InstallKinds == {"install", "installPkg"}
\* The operations that take a cancellation signal and promote a folder.
CancellableKinds == InstallKinds \cup {"update"}

EventsOfType(o, t) == {i \in DOMAIN events[o] : events[o][i].type = t}

\* Every error the caller is told of: through the observer, or as the
\* rejection of the operation's promise.
EventErrors(o) == {events[o][i].message : i \in EventsOfType(o, "error")}
ReportedErrors(o) ==
  EventErrors(o) \cup
  (IF outcome[o].state = "threw" THEN {outcome[o].err} ELSE {})

\* The destination root is as it was before the operation.
RootUntouched == root = root0.dirs /\ rootExists = root0.exists

\* The stages of an operation that come after the archive is verified.
PostVerifyActs == {"extract", "stamp", "promote"}
\* Everything an operation does that is keyed by the plugin's name or
\* writes to the file system.
NameKeyedActs == {"mktemp", "archive-req", "extract", "stamp", "promote",
                  "root-write"}

\* ================================================================== claims

\* C1: the archive is extracted only after its digest has been computed
\* over the whole downloaded body and compared equal to the declared
\* checksum; on a mismatch the operation ends with the checksum error and
\* does not extract, stamp or promote.
C1_ExtractOnlyAfterDigestMatch ==
  \A o \in Ops :
    /\ (acts[o] \cap PostVerifyActs # {}
          \/ pc[o] \in {"dea_extract", "dea_c522", "dea_stamp",
                        "inst_promote", "upd_replace"})
         => /\ loc[o].cmp = "equal"
            /\ loc[o].body = loc[o].served
            /\ loc[o].archiveChecksum = Sha256Hex(loc[o].body)
            /\ loc[o].archiveChecksum = loc[o].checksum
    /\ loc[o].cmp = "mismatch"
         => /\ Done(o)
            /\ ReportedErrors(o) = {"Checksum mismatch."}
            /\ EventsOfType(o, "success") = {}
            /\ acts[o] \cap PostVerifyActs = {}
            /\ RootUntouched

\* An install that verified, extracted and promoted the archive.
C1_Witness ==
  \E o \in Ops :
    /\ Done(o) /\ cfg[o].kind \in InstallKinds
    /\ PostVerifyActs \subseteq acts[o]
    /\ loc[o].cmp = "equal"
    /\ ReportedErrors(o) = {}

LowerChar(c) ==
  CASE c = "A" -> "a" [] c = "B" -> "b" [] c = "C" -> "c" [] c = "D" -> "d"
    [] c = "E" -> "e" [] c = "F" -> "f" [] c = "S" -> "s" [] c = "H" -> "h"
    [] OTHER -> c
Lower(s) == [i \in 1..Len(s) |-> LowerChar(s[i])]

\* The declared checksum names the digest of the bytes, whatever the letter
\* case of its hex digits and of an optional "sha256:" prefix.
DeclaredMatches(declared, bytes) ==
  LET n == Len(LowerPrefix)
      bare == IF Len(declared) >= n /\ Lower(SubSeq(declared, 1, n)) = LowerPrefix
              THEN SubSeq(declared, n + 1, Len(declared))
              ELSE declared
  IN Lower(bare) = Sha256Hex(bytes)

\* C2: the comparison lets the archive through exactly when the declared
\* checksum equals the digest of the downloaded bytes, ignoring the letter
\* case of the hex digits and a leading sha256: prefix in any letter case.
C2_CaseInsensitiveComparison ==
  \A o \in Ops :
    loc[o].cmp # "none"
      => (loc[o].cmp = "equal"
            <=> DeclaredMatches(loc[o].pluginInfo.archiveChecksum, loc[o].body))

\* The name holds a forward slash, a backslash, or two dots in a row.
BadName(n) ==
  \/ \E i \in 1..Len(n) : n[i] = "/" \/ n[i] = "\\"
  \/ \E i \in 1..(Len(n) - 1) : n[i] = "." /\ n[i + 1] = "."

\* The plugin name operation o is about: the one it was given, or the one
\* in the package metadata it was given or has resolved.
NamesOf(o) ==
  (IF cfg[o].kind \in {"update", "uninstall"} THEN {cfg[o].name} ELSE {})
  \cup (IF cfg[o].kind \in CancellableKinds /\ loc[o].pluginInfo.tag = "pkg"
           /\ (cfg[o].kind = "installPkg" \/ "registry-req" \in acts[o])
        THEN {loc[o].pluginInfo.name} ELSE {})

\* C3 as stated: a bad name is rejected by validatePluginName, and install,
\* update and uninstall given or resolving one end with an error before any
\* network request and before any read or write of the file system.
C3_NoActionOnBadName ==
  \A o \in Ops :
    \A n \in NamesOf(o) :
      BadName(n)
        => /\ ~validatePluginName(n)
           /\ acts[o] = {}
           /\ RootUntouched
           /\ Done(o) => ReportedErrors(o) # {}

\* C3, amended: a bad name is rejected by validatePluginName, and an install
\* or update whose package metadata carries one ends with an error before
\* the temporary directory, the archive request, the extraction, the stamp,
\* the promotion and any write to the file system.
C3_BadMetadataNameStopsBeforeDownload ==
  \A o \in Ops :
    (cfg[o].kind \in CancellableKinds /\ loc[o].pluginInfo.tag = "pkg"
       /\ BadName(loc[o].pluginInfo.name))
      => /\ ~validatePluginName(loc[o].pluginInfo.name)
         /\ pc[o] \in {"dea_start", "upd_cmp", "done"}
         /\ acts[o] \cap NameKeyedActs = {}
         /\ \A r \in archRequests : r.op # o
         /\ tmp[o] = NoTmp /\ outside = {}
         /\ RootUntouched
         /\ Done(o) => /\ ReportedErrors(o) # {}
                       /\ EventsOfType(o, "success") = {}

\* An install resolved metadata with a bad name from the registry and was
\* stopped by the name check.
C3_Witness ==
  \E o \in Ops :
    /\ Done(o) /\ cfg[o].kind = "install"
    /\ "registry-req" \in acts[o]
    /\ loc[o].pluginInfo.tag = "pkg" /\ BadName(loc[o].pluginInfo.name)
    /\ ReportedErrors(o) = {"Invalid plugin name"}

\* C4: for every name validatePluginName accepts, the archive is extracted
\* into a proper subdirectory of the operation's temporary directory and
\* the folder is promoted to an immediate child of the destination root.
C4_ExtractionStaysInTemp ==
  \A o \in Ops :
    /\ "extract" \in acts[o]
         => IsProperSubdir(loc[o].extractDir, TempDirOf(o))
    /\ "promote" \in acts[o]
         => IsImmediateChild(loc[o].target, DestRoot)

\* The allow-list read on its own: a trusted host, an owner and a
\* repository, one of the host's release paths and something after it; or
\* anything under the pinned fixture repository.
ReleasePaths(origin) ==
  CASE origin = "https://github.com" -> {<<"releases">>, <<"archive">>}
    [] origin = "https://bitbucket.org" -> {<<"downloads">>, <<"get">>}
    [] origin = "https://gitlab.com" -> {<<"-", "archive">>, <<"releases">>}
    [] OTHER -> {}
OnAllowList(u) ==
  /\ u.tag = "url"
  /\ \/ \E k \in ReleasePaths(u.origin) :
          /\ Len(u.segs) > 2 + Len(k)
          /\ u.segs[1] # "" /\ u.segs[2] # ""
          /\ \A i \in 1..Len(k) : u.segs[2 + i] = k[i]
     \/ /\ u.origin = "https://github.com"
        /\ Len(u.segs) > 2
        /\ <<u.segs[1], u.segs[2]>> = <<"yolossn", "headlamp-plugins">>

TerminalEvents(o) ==
  EventsOfType(o, "success") \cup EventsOfType(o, "error")

\* C6: an operation given an observer calls it with exactly one terminal
\* event (success or error), and that event is the last one.
C6_ExactlyOneTerminalEvent ==
  \A o \in Ops :
    (Done(o) /\ cfg[o].observer
       /\ cfg[o].kind \in CancellableKinds \cup {"uninstall", "list"})
      => TerminalEvents(o) = {Len(events[o])}

\* C7: a failing operation reports its error through exactly one channel:
\* an error event and a normal return when there is an observer, a
\* rejection and no event when there is none.
C7_OneErrorChannel ==
  \A o \in Ops :
    (Done(o) /\ ReportedErrors(o) # {})
      => IF cfg[o].observer
         THEN EventErrors(o) # {} /\ outcome[o].state = "returned"
         ELSE EventErrors(o) = {} /\ outcome[o].state = "threw"

\* The signal fired after the response headers and before the whole body
\* had been read.
CancelledMidDownload(o) ==
  /\ cfg[o].kind \in InstallKinds
  /\ abortPc[o] \in {"dea_c467", "dea_body"}

\* C8 as stated: an install cancelled after the headers and before the end
\* of the body ends with the "Download cancelled" error, and the
\* destination root has no new folder.
C8_MidDownloadCancelMessage ==
  \A o \in Ops :
    (CancelledMidDownload(o) /\ Done(o))
      => /\ ReportedErrors(o) = {"Download cancelled"}
         /\ RootUntouched

\* C8, amended: such an install ends with a cancellation error and nothing
\* else: "Download cancelled" when the signal fired before the check that
\* follows the headers, the abort error of the body stream when it fired
\* while the body was being read; the destination root has no new folder.
C8_MidDownloadCancelFails ==
  \A o \in Ops :
    CancelledMidDownload(o)
      => /\ pc[o] \in {"dea_c467", "dea_body", "done"}
         /\ acts[o] \cap PostVerifyActs = {}
         /\ RootUntouched
         /\ Done(o)
              => /\ ReportedErrors(o) =
                      (IF abortPc[o] = "dea_c467"
                       THEN {"Download cancelled"} ELSE {"AbortError"})
                 /\ abortPc[o] = "dea_c467" => loc[o].body = <<>>
                 /\ EventsOfType(o, "success") = {}
                 /\ Cardinality(EventsOfType(o, "error")) =
                      (IF cfg[o].observer THEN 1 ELSE 0)

\* An install cancelled between two chunks of the body has ended.
C8_Witness ==
  \E o \in Ops :
    /\ Done(o) /\ CancelledMidDownload(o)
    /\ abortPc[o] = "dea_body"
    /\ loc[o].body # <<>> /\ Len(loc[o].body) < Len(loc[o].served)
    /\ tmp[o].exists

\* The place of a label in the course of an install or update.
StageOf(p) ==
  CASE p \in {"pre", "idle", "never"} -> 0
    [] p = "upd_list" -> 1
    [] p = "fpi" -> 2
    [] p = "fpi_fetch" -> 3
    [] p = "fpi_resp" -> 4
    [] p \in {"inst_catch", "upd_catch", "upd_cmp"} -> 5
    [] p = "dea_start" -> 6
    [] p = "dea_compat" -> 7
    [] p = "dea_c445" -> 8
    [] p = "dea_mkdir" -> 9
    [] p = "dea_c457" -> 10
    [] p = "dea_hdr" -> 11
    [] p = "dea_c467" -> 12
    [] p \in {"dea_body", "dea_body_end"} -> 13
    [] p = "dea_extract" -> 14
    [] p = "dea_c522" -> 15
    [] p = "dea_stamp" -> 16
    [] p \in {"inst_promote", "upd_replace"} -> 17
    [] OTHER -> 18

\* The labels at which downloadExtractArchive reads signal.aborted.
CheckpointPcs == {"dea_start", "dea_c445", "dea_c457", "dea_c467",
                  "dea_body", "dea_c522"}
LastCheckpoint == StageOf("dea_c522")

CheckpointStages == {StageOf(p) : p \in CheckpointPcs}

\* The first checkpoint at or after stage s.
NextCheckpoint(s) ==
  CHOOSE c \in CheckpointStages :
    c >= s /\ \A d \in CheckpointStages : d >= s => c <= d

\* C9 as stated: when the signal fires at any moment before the terminal
\* result of an install or update, no plugin folder is created or replaced
\* in the destination root.
C9_CancelNeverPromotes ==
  \A o \in Ops :
    (cfg[o].kind \in CancellableKinds /\ aborted[o])
      => root = root0.dirs

\* C9, amended: when the signal fires before the install or update has
\* passed the check that follows the extraction, no plugin folder is
\* created or replaced in the destination root; the temporary directory
\* may stay behind.
C9_CancelBeforeLastCheckNeverPromotes ==
  \A o \in Ops :
    (cfg[o].kind \in CancellableKinds /\ aborted[o]
       /\ StageOf(abortPc[o]) <= LastCheckpoint)
      => /\ "promote" \notin acts[o]
         /\ "stamp" \notin acts[o]
         /\ pc[o] \notin {"dea_stamp", "inst_promote", "upd_replace"}
         /\ RootUntouched

\* An install cancelled while the archive was being extracted has ended,
\* leaving its temporary directory behind.
C9_Witness ==
  \E o \in Ops :
    /\ Done(o) /\ cfg[o].kind \in CancellableKinds
    /\ abortPc[o] = "dea_extract"
    /\ tmp[o].exists /\ tmp[o].sub.exists
    /\ ReportedErrors(o) = {"Download cancelled"}

\* The stages that come after the checkpoint at label c.
ActsAfter(c) ==
  CASE c \in {"dea_start", "dea_c445"} -> NameKeyedActs
    [] c = "dea_c457" -> NameKeyedActs \ {"mktemp"}
    [] c \in {"dea_c467", "dea_body"} -> PostVerifyActs \cup {"root-write"}
    [] OTHER -> {"stamp", "promote", "root-write"}

\* The error the caller was told of last.
LastError(o) ==
  IF outcome[o].state = "threw" THEN outcome[o].err
  ELSE IF events[o] # <<>> /\ events[o][Len(events[o])].type = "error"
       THEN events[o][Len(events[o])].message
  ELSE ""

\* The signal is read at each checkpoint of downloadExtractArchive: an
\* operation whose signal has fired does not get past the next one, and
\* one stopped there fails with "Download cancelled" and runs no later
\* stage.
StopsAtCheckpoints(o) ==
  /\ (aborted[o] /\ ~Done(o) /\ StageOf(abortPc[o]) <= LastCheckpoint)
       => StageOf(pc[o]) <= NextCheckpoint(StageOf(abortPc[o]))
  /\ loc[o].cancelAt # ""
       => /\ Done(o)
          /\ LastError(o) = "Download cancelled"
          /\ EventsOfType(o, "success") = {}
          /\ acts[o] \cap ActsAfter(loc[o].cancelAt) = {}
          /\ loc[o].cancelAt = "dea_c467" => loc[o].body = <<>>
          /\ RootUntouched

\* C10 as stated: install and update read the signal at six checkpoints,
\* the first of them the start of the operation; found fired, the
\* operation fails with "Download cancelled" and no other error, and no
\* later stage runs.
C10_SixCheckpointsFromStart ==
  \A o \in Ops :
    cfg[o].kind \in CancellableKinds
      => /\ StopsAtCheckpoints(o)
         /\ (abortPc[o] = "pre" /\ Done(o))
              => /\ ReportedErrors(o) = {"Download cancelled"}
                 /\ acts[o] = {}

\* C10, amended: install and update read the signal at the six checkpoints
\* of downloadExtractArchive (on entry, before the temporary directory is
\* made, before the archive request, after the headers, after the body is
\* verified, after the extraction); found fired, the operation fails with
\* "Download cancelled" and no later stage runs.
C10_SixCheckpointsOfDownload ==
  \A o \in Ops : cfg[o].kind \in CancellableKinds => StopsAtCheckpoints(o)

\* An update found its signal fired at the check after the extraction.
C10_Witness ==
  \E o \in Ops :
    /\ cfg[o].kind = "update"
    /\ loc[o].cancelAt = "dea_c522"
    /\ "extract" \in acts[o]

\* a is not a later version than b: the versions are equal, or they differ
\* first at a field in which a is smaller.
NotNewer(a, b) ==
  \/ a = b
  \/ \E i \in 1..3 : a[i] < b[i] /\ \A j \in 1..(i - 1) : a[j] = b[j]

\* Update o has resolved the registry's metadata of the plugin it found.
UpdateResolved(o) ==
  /\ cfg[o].kind = "update"
  /\ loc[o].pluginInfo.tag = "pkg"
  /\ loc[o].folderName \in FolderNames

\* C11: an update of a plugin whose registry version is equal to or less
\* than the version of its installed provenance record ends with the
\* "No updates available" error, requests no archive, and leaves the
\* installed plugin folder as it was.
C11_NoUpdateWhenNotNewer ==
  \A o \in Ops :
    (UpdateResolved(o)
       /\ NotNewer(loc[o].pluginInfo.version,
                   root0.dirs[loc[o].folderName].pkg.ah.version))
      => /\ pc[o] \in {"upd_cmp", "done"}
         /\ acts[o] \cap NameKeyedActs = {}
         /\ \A r \in archRequests : r.op # o
         /\ RootUntouched
         /\ Done(o) => /\ ReportedErrors(o) = {"No updates available"}
                       /\ EventsOfType(o, "success") = {}

\* An update found the registry at the installed version and has ended.
C11_Witness ==
  \E o \in Ops :
    /\ Done(o) /\ UpdateResolved(o)
    /\ loc[o].pluginInfo.version = root0.dirs[loc[o].folderName].pkg.ah.version
    /\ ReportedErrors(o) = {"No updates available"}

\* C12: an install or update that ends in an error, whichever step failed,
\* leaves the folders of the destination root as they were before it: no
\* newly promoted folder, and the plugin installed before is still there
\* with its contents.
C12_FailureLeavesRootAsBefore ==
  \A o \in Ops :
    (Done(o) /\ cfg[o].kind \in CancellableKinds /\ ReportedErrors(o) # {})
      => root = root0.dirs

\* The install or update has promoted a folder and reported no error.
Succeeded(o) ==
  /\ Done(o) /\ cfg[o].kind \in CancellableKinds
  /\ "promote" \in acts[o]
  /\ ReportedErrors(o) = {}

\* The name of the folder operation o promotes to.
TargetFolder(o) ==
  IF cfg[o].kind = "update" THEN loc[o].folderName
  ELSE Basename(loc[o].pluginInfo.name)

\* A valid plugin folder: it exists, holds the entry-point file and a
\* manifest, and the manifest's managed flag is true.
ValidFolder(f) ==
  f.exists /\ f.main /\ f.pkg.tag = "json" /\ f.pkg.managed

\* C13: after an install or update that reports success, whatever the
\* verified archive held, the promoted folder is a valid plugin folder.
C13_SuccessMeansValidFolder ==
  \A o \in Ops :
    Succeeded(o)
      => /\ TargetFolder(o) \in FolderNames
         /\ ValidFolder(root[TargetFolder(o)])

\* C14: after a successful install of a package whose declared checksum is
\* the SHA-256 of the archive, the manifest in the destination folder has
\* the managed flag set and a provenance record with the package's name,
\* the registry's version, repository name and user alias.
C14_InstallStampsProvenance ==
  \A o \in Ops :
    (Succeeded(o) /\ cfg[o].kind \in InstallKinds)
      => LET info == loc[o].pluginInfo
             m == root[TargetFolder(o)].pkg
         IN /\ m.tag = "json" /\ m.managed
            /\ m.ah.tag = "ah"
            /\ m.ah.name = info.name
            /\ m.ah.version = info.version
            /\ m.ah.repoName = info.repository.name
            /\ m.ah.author = info.repository.user_alias

\* C15: list on an existing root returns exactly the valid plugin folders
\* and reports no error, whatever invalid or foreign folders the root
\* holds; a valid folder is always listed and never makes list fail.
C15_ListReturnsExactlyValidFolders ==
  \A o \in Ops :
    (Done(o) /\ cfg[o].kind = "list" /\ root0.exists)
      => /\ ReportedErrors(o) = {}
         /\ loc[o].listed = {n \in FolderNames : ValidFolder(root0.dirs[n])}

\* Folder n of the root before the operation has a manifest without the
\* managed flag, and name is what the manifest or the folder is called.
UnmanagedTarget(n, name) ==
  LET f == root0.dirs[n] IN
  /\ f.exists /\ f.main /\ f.pkg.tag = "json" /\ ~f.pkg.managed
  /\ (f.pkg.name = name \/ n = name)

\* C16: an uninstall that targets a folder whose manifest lacks the managed
\* flag fails with the "Invalid plugin folder" error and no other, and the
\* folder stays as it was.
C16_UninstallUnmanagedIsInvalidFolder ==
  \A o \in Ops :
    (Done(o) /\ cfg[o].kind = "uninstall"
       /\ \E n \in FolderNames : UnmanagedTarget(n, cfg[o].name))
      => /\ ReportedErrors(o) = {"Invalid plugin folder"}
         /\ RootUntouched

\* C17: a folder of the plugins root that is invalid when an operation
\* starts is not modified, overwritten or removed by that operation.
C17_InvalidFoldersUntouched ==
  \A n \in FolderNames :
    (root0.dirs[n].exists /\ ~ValidFolder(root0.dirs[n]))
      => root[n] = root0.dirs[n]

\* The signal of operation o had fired when its metadata fetch was made.
FiredBeforeMetadataFetch(o) ==
  /\ cfg[o].kind \in {"install", "update", "resolve"}
  /\ aborted[o]
  /\ StageOf(abortPc[o]) <= StageOf("fpi_fetch")

\* C18: when the signal has already fired at the time install, update or
\* fetchPluginInfo makes the metadata fetch, no request goes to the
\* registry and the operation ends in an error.
C18_NoRegistryRequestWhenCancelled ==
  \A o \in Ops :
    FiredBeforeMetadataFetch(o)
      => /\ \A r \in regRequests : r.op # o
         /\ "registry-req" \notin acts[o]
         /\ pc[o] # "fpi_resp"
         /\ Done(o) => /\ ReportedErrors(o) # {}
                       /\ EventsOfType(o, "success") = {}
                       /\ outcome[o].state = "returned" => cfg[o].observer

\* fetchPluginInfo was called with a fired signal and has rejected with
\* fetch's abort error.
C18_Witness ==
  \E o \in Ops :
    /\ Done(o) /\ cfg[o].kind = "resolve"
    /\ abortPc[o] = "pre"
    /\ ReportedErrors(o) = {"AbortError"}
    /\ regRequests = {}

\* The package metadata of operation o fails one of the checks made before
\* the download: the name, the archive URL, the presence of a checksum, the
\* compatibility of the host's version with the range the package declares.
FailsValidation(o) ==
  LET info == loc[o].pluginInfo IN
  /\ cfg[o].kind \in CancellableKinds
  /\ info.tag = "pkg"
  /\ \/ BadName(info.name)
     \/ ~OnAllowList(info.archiveURL)
     \/ info.archiveChecksum = <<>>
     \/ /\ cfg[o].headlamp.given
        /\ ~NotNewer(info.versionCompat.min, cfg[o].headlamp.v)

ValidationErrors ==
  {"Invalid plugin name", "Invalid plugin/archive-url:",
   "Invalid plugin metadata. Please check the plugin details.",
   "Headlamp version is not compatible with the plugin"}

\* Operation o has made no temporary directory, requested no archive and
\* neither created nor modified the destination root.
NothingStarted(o) ==
  /\ acts[o] \cap NameKeyedActs = {}
  /\ \A r \in archRequests : r.op # o
  /\ tmp[o] = NoTmp /\ outside = {}
  /\ RootUntouched

\* C19: when the name check, the archive-URL check, the checksum-presence
\* check or the compatibility check fails, install and update stop there:
\* no temporary directory, no archive request, the destination root
\* neither created nor modified.
C19_ValidationFailureStopsPipeline ==
  \A o \in Ops :
    /\ FailsValidation(o)
         => /\ NothingStarted(o)
            /\ StageOf(pc[o]) <= StageOf("dea_compat") \/ Done(o)
            /\ Done(o) => /\ ReportedErrors(o) # {}
                          /\ EventsOfType(o, "success") = {}
    /\ (cfg[o].kind \in CancellableKinds
          /\ ReportedErrors(o) \cap ValidationErrors # {})
         => /\ Done(o) /\ NothingStarted(o)
            /\ FailsValidation(o)

\* An install of a package that the host's version does not satisfy has
\* ended with the compatibility error.
C19_Witness ==
  \E o \in Ops :
    /\ Done(o) /\ cfg[o].kind \in InstallKinds
    /\ FailsValidation(o)
    /\ ReportedErrors(o) = {"Headlamp version is not compatible with the plugin"}

\* C20: after a successful update the plugin folder holds exactly the files
\* of the newly extracted archive, its manifest stamped: no file of the
\* version installed before that the new archive lacks remains.
C20_UpdateReplacesFolder ==
  \A o \in Ops :
    (Succeeded(o) /\ cfg[o].kind = "update")
      => LET ar == ArchiveOf(loc[o].body).content
             old == root0.dirs[loc[o].folderName]
             new == root[loc[o].folderName]
         IN /\ new.exists
            /\ new.main = ar.main
            /\ new.extra = ar.extra
            /\ (old.extra \ ar.extra) \cap new.extra = {}
            /\ new.pkg.tag = ar.pkg.tag
            /\ new.pkg.name = ar.pkg.name
            /\ new.pkg.version = ar.pkg.version
            /\ new.pkg.tag = "json"
                 => /\ new.pkg.managed
                    /\ new.pkg.ah.tag = "ah"
                    /\ new.pkg.ah.version = loc[o].pluginInfo.version

\* An update has replaced a folder that held a file the new archive lacks.
C20_Witness ==
  \E o \in Ops :
    /\ Succeeded(o) /\ cfg[o].kind = "update"
    /\ "old.js" \in root0.dirs[loc[o].folderName].extra
    /\ "old.js" \notin root[loc[o].folderName].extra

\* ------------------------------------------------------------------- C21
\* Every file of src is in dst with src's content.
Populated(dst, src) == dst.exists /\ dst = CopyOver(dst, src)

\* Operation o calls moveDirs on an existing temp folder in this step.
CallsMoveDirs(o) ==
  /\ pc[o] \in {"inst_promote", "upd_replace"} /\ pc'[o] = "done"
  /\ loc[o].tempFolder # EmptyPath
  /\ tmp[o].sub.exists
  /\ cfg[o].kind = "update" => root'[TargetFolder(o)] # root[TargetFolder(o)]

\* C21: moveDirs(tempDir, destinationDir) either ends with the destination
\* holding every file of the temp folder and the temp folder removed, or it
\* throws to its caller, which reports the error; when the copy did not
\* complete the temp folder is still there as it was.
C21_MoveDirsAllOrThrows ==
  [][\A o \in MainOps :
       CallsMoveDirs(o) =>
         LET dst == root'[TargetFolder(o)]
             src == tmp[o].sub
         IN /\ \/ /\ ReportedErrors(o)' = {}
                  /\ Populated(dst, src)
                  /\ ~tmp'[o].sub.exists
               \/ ReportedErrors(o)' # {}
            /\ ~Populated(dst, src) =>
                 /\ tmp'[o].sub = src
                 /\ ReportedErrors(o)' # {}]_vars

\* An install whose copy stopped half way: the temp folder is kept and the
\* caller has the error.
C21_Witness ==
  \E o \in MainOps :
    /\ Done(o) /\ cfg[o].kind \in InstallKinds /\ "promote" \in acts[o]
    /\ tmp[o].sub.exists /\ tmp[o].sub.pkg.tag = "json"
    /\ root[TargetFolder(o)].exists
    /\ ~Populated(root[TargetFolder(o)], tmp[o].sub)
    /\ ReportedErrors(o) = {"EIO"}

\* ------------------------------------------------------------------- C22
\* C22: after an install or update that reports success, no directory the
\* operation created under the system temp location still exists.
C22_NoTempDirAfterSuccess ==
  \A o \in MainOps :
    Succeeded(o) => ~tmp[o].exists /\ ~tmp[o].sub.exists

\* ------------------------------------------------------------------- C23
\* Nothing of an archive is on disk: the temp folder holds no file, the
\* destination root is as before and nothing is written elsewhere.
NoArchiveOnDisk(o) ==
  /\ tmp[o].sub \in {NoFolder, EmptyFolder}
  /\ RootUntouched
  /\ outside = {}

\* C23 as stated: when the digest does not match the declared checksum, the
\* operation has created no file or directory at the moment the checksum
\* error is raised, neither in the temp location nor in the destination
\* root.
C23_MismatchBeforeAnyDiskWrite ==
  \A o \in MainOps :
    loc[o].cmp = "mismatch" => tmp[o] = NoTmp /\ NoArchiveOnDisk(o)

\* C23: a digest mismatch is rejected before anything of the archive touches
\* disk. When the checksum error is raised the operation has only created
\* its two empty temp directories; and whenever a file of an archive is on
\* disk, the archive's digest is the declared checksum.
C23_MismatchBeforeArchiveTouchesDisk ==
  \A o \in MainOps :
    /\ loc[o].cmp = "mismatch"
         => /\ ReportedErrors(o) = {"Checksum mismatch."}
            /\ NoArchiveOnDisk(o)
            /\ tmp[o].exists
    /\ cfg[o].kind \in CancellableKinds /\ ~NoArchiveOnDisk(o)
         => Sha256Hex(loc[o].served) = loc[o].checksum

\* A download whose digest differs from the declared checksum has ended
\* with the checksum error, its temp folder created and empty.
C23_Witness ==
  \E o \in MainOps :
    /\ Done(o) /\ loc[o].cmp = "mismatch"
    /\ loc[o].body = loc[o].served /\ Len(loc[o].body) > 0
    /\ ReportedErrors(o) = {"Checksum mismatch."}
    /\ tmp[o].exists /\ tmp[o].sub = EmptyFolder

\* ------------------------------------------------------------------- C24
\* The folders of the root, as it was before the operation, that are valid
\* plugin folders whose manifest declares the name.
DeclaringFolders(name) ==
  {n \in FolderNames :
     ValidFolder(root0.dirs[n]) /\ root0.dirs[n].pkg.name = name}

\* C24: update and uninstall find their target by the manifest's declared
\* name, not by folder name. On a root that list reads without an error: a
\* name that no valid folder's manifest declares fails with "Plugin not
\* found" with no network request and no change of the root, and a name
\* that a valid folder's manifest declares selects such a folder.
C24_LookupByManifestName ==
  \A o \in MainOps :
    Done(o) /\ cfg[o].kind \in {"update", "uninstall"}
            /\ root0.exists /\ ~ListThrows(root0.dirs)
      => IF DeclaringFolders(cfg[o].name) = {}
         THEN /\ ReportedErrors(o) = {"Plugin not found"}
              /\ regRequests = {} /\ archRequests = {}
              /\ RootUntouched
         ELSE loc[o].folderName \in DeclaringFolders(cfg[o].name)

\* ------------------------------------------------------------------- C25
\* C25: the provenance version recorded in an installed plugin's manifest
\* never decreases over updates: an update that succeeds sets it to the
\* registry version, which is later than the version before, and an update
\* that does not succeed leaves the record as it was. Stated for a registry
\* that names the plugin "a" and serves an archive holding a manifest object.
C25_ProvenanceVersionNeverDecreases ==
  \A o \in MainOps :
    (Done(o) /\ cfg[o].kind = "update" /\ loc[o].folderName \in FolderNames
       /\ loc[o].pluginInfo.name = <<"a">>
       /\ ArchiveOf(loc[o].served).content.pkg.tag = "json")
      => LET old == root0.dirs[loc[o].folderName].pkg.ah
             new == root[loc[o].folderName].pkg.ah
         IN IF ReportedErrors(o) = {}
            THEN /\ new.tag = "ah"
                 /\ new.version = loc[o].pluginInfo.version
                 /\ ~NotNewer(new.version, old.version)
            ELSE new = old

\* ------------------------------------------------------------------- C26
\* The provenance record downloadExtractArchive writes for operation o.
ProvenanceOf(o) == Stamped(Manifest(<<>>, V0), loc[o].pluginInfo).ah

\* Both installs have ended with success and were for the same plugin name.
BothInstalledSameName ==
  /\ \A o \in Ops : Succeeded(o)
  /\ loc[1].pluginInfo.name = loc[2].pluginInfo.name

\* C26: when two installs of the same plugin name run concurrently and both
\* complete, the last promote wins: the destination folder is a valid
\* plugin folder and its manifest carries the provenance record of an
\* install, the one whose promote step ran last.
C26_LastPromoteWins ==
  BothInstalledSameName
    => /\ ValidFolder(root[TargetFolder(1)])
       /\ root[TargetFolder(1)].pkg.ah \in {ProvenanceOf(o) : o \in Ops}

\* ------------------------------------------------------------------- C27
\* The folder operation o extracted and stamped in its temp directory.
ExtractedBy(o) ==
  LET c == CopyOver(EmptyFolder, ArchiveOf(loc[o].served).content)
  IN [c EXCEPT !.pkg = Stamped(@, loc[o].pluginInfo)]

\* Operation o called moveDirs on a temp folder.
Promoted(o) == "promote" \in acts[o] /\ loc[o].tempFolder # EmptyPath

\* What install o, run on its own on the root as it was, can leave in the
\* folder named after its plugin, given how o ended.
AloneResults(o) ==
  LET before == root0.dirs[loc[o].pluginInfo.name] IN
  IF ~Promoted(o) THEN {before}
  ELSE IF ReportedErrors(o) = {} THEN {MovedInto(before, ExtractedBy(o), "moved")}
  ELSE {MovedInto(before, ExtractedBy(o), how) : how \in MoveOutcomes \ {"moved"}}

\* Both installs have ended and were for different plugin names.
BothEndedDifferentNames ==
  /\ \A o \in Ops : Done(o) /\ cfg[o].kind = "installPkg"
  /\ loc[1].pluginInfo.name # loc[2].pluginInfo.name

\* C27: two concurrent installs of different plugin names do not interfere.
\* Each extracts inside its own temp directory, and in every interleaving
\* the destination root ends as the two installs run one after the other
\* leave it: each plugin's folder is what its install alone makes of it,
\* every other folder is as before.
C27_DifferentNamesDoNotInterfere ==
  BothEndedDifferentNames
    => /\ TempDirOf(1) # TempDirOf(2)
       /\ \A o \in Ops :
            Promoted(o) => IsProperSubdir(loc[o].extractDir, TempDirOf(o))
       /\ \A n \in FolderNames :
            IF \E o \in Ops : loc[o].pluginInfo.name = n
            THEN \E o \in Ops : /\ loc[o].pluginInfo.name = n
                                 /\ root[n] \in AloneResults(o)
            ELSE root[n] = root0.dirs[n]
       /\ rootExists = (root0.exists \/ \E o \in Ops : "promote" \in acts[o])

\* Plugins "a" and "aa" installed by two operations, both with success:
\* folder "a" holds the new files next to the old one, folder "aa" is new.
C27_Witness ==
  /\ BothEndedDifferentNames
  /\ \A o \in Ops : Succeeded(o)
  /\ root[<<"a">>].pkg.ah.version = <<1, 0, 0>>
  /\ root[<<"a", "a">>].pkg.ah.version = <<1, 1, 0>>
  /\ root[<<"a">>].extra = {"old.js", "extra.js"}

\* ------------------------------------------------------------------- C28
InvalidUrlError == "Invalid URL. Please provide a valid URL from ArtifactHub."

\* C28: the registry URL install stamps into the provenance record is one
\* the registry client accepts: every record in the root holds a URL under
\* the registry's package-page prefix, and an update that reads the stored
\* URL of the plugin it found is never rejected by the metadata fetch as an
\* invalid URL.
C28_StampedUrlAccepted ==
  /\ \A n \in FolderNames :
       root[n].pkg.ah.tag = "ah" => root[n].pkg.ah.url.prefix = PagePrefix
  /\ \A o \in Ops :
       (cfg[o].kind = "update" /\ loc[o].folderName \in FolderNames)
         => /\ loc[o].url.tag = "url" => loc[o].url.prefix = PagePrefix
            /\ InvalidUrlError \notin ReportedErrors(o)
            /\ loc[o].err # InvalidUrlError

\* Plugin "aa" was installed into a root that did not hold it, and the update
\* that followed has read the URL the install stamped and sent the metadata
\* request for it.
C28_Witness ==
  /\ Succeeded(1) /\ cfg[1].kind = "installPkg"
  /\ loc[1].pluginInfo.name = <<"a", "a">>
  /\ ~root0.dirs[<<"a", "a">>].exists
  /\ cfg[2].kind = "update" /\ loc[2].folderName = <<"a", "a">>
  /\ loc[2].url = ProvenanceOf(1).url
  /\ [op |-> 2, url |-> [loc[2].url EXCEPT !.prefix = ApiPrefix]] \in regRequests

\* ------------------------------------------------------------------- C29
\* C29: after uninstall(name, root) reports success, list(root) returns no
\* plugin whose manifest name is name, also when several folders declare
\* that name, and every folder other than the removed one is unchanged.
C29_UninstalledNameNotListed ==
  \A o \in MainOps :
    (Done(o) /\ cfg[o].kind = "uninstall" /\ ReportedErrors(o) = {})
      => /\ ~ListThrows(root)
         /\ \A n \in Listed(root) : root[n].pkg.name # cfg[o].name
         /\ \A n \in FolderNames \ {loc[o].folderName} :
              root[n] = root0.dirs[n]

\* ------------------------------------------------------------------- C30
\* The observer of operation o has been called with an event of that type
\* and message.
Emitted(o, type, message) ==
  \E i \in DOMAIN events[o] : events[o][i] = Ev(type, message)

\* C30: in an install with a progress observer, the success event is
\* emitted only after the promote step has completed, and the download-end
\* event only after the archive body has been completely received.
C30_MilestonesFollowTheirStage ==
  \A o \in MainOps :
    (cfg[o].kind \in InstallKinds /\ cfg[o].observer)
      => /\ Emitted(o, "success", "Plugin Installed")
              => "promote" \in acts[o] /\ root[TargetFolder(o)].exists
         /\ Emitted(o, "info", "Plugin Downloaded")
              => loc[o].served # <<>> /\ loc[o].body = loc[o].served

====
